---- MODULE Spec2Model ----
(***************************************************************************)
(* A model of the triad-balance numeric core: the sieves of src/triad.py,  *)
(* its Kahan accumulators, term functions, scalar evaluators and the       *)
(* stream_prefix_values generator, the tail bounds of src/tails.py, and    *)
(* the drivers that consume them (sanity_check.compute_values and          *)
(* scripts/make_datast.py main).                                           *)
(*                                                                         *)
(* Python floats are modelled as a small binary floating-point format:     *)
(* a value is an integer count of units of 2^-FracBits, and every          *)
(* floating-point operation rounds its exact result to SigBits significant *)
(* bits (ties to even), with 2^-FracBits as the smallest step (gradual     *)
(* underflow).  Python ints are TLA+ integers.  A Python list indexed      *)
(* 0..N is a function with domain 0..N (the empty function for N < 0).     *)
(* A Python call that may raise returns a record [err, val].               *)
(***************************************************************************)
EXTENDS Integers, Sequences, FiniteSets, TLC

\* ------------------------------------------------------------ bounds
\* Largest N given to the sieves and to the streaming engine.
MaxN == 10
\* Sieve inputs range over -MinNeg..MaxN.
MinNeg == 2
\* Sample points and N_ref of compute_values range up to MaxPoint.
MaxPoint == 4
\* triad_tail_bound is called with n in -TailNeg..MaxTailN.
MaxTailN == 24
TailNeg == 3
\* A corrupted table entry takes a value in -MaxCorrupt..0.
MaxCorrupt == 3
\* A direct user of the tail bounds asks for at most MaxTailCalls values of n.
MaxTailCalls == 2
\* scripts/triad_full.py is run with --n in -MinNeg..MaxFullN.
MaxFullN == 30

\* ------------------------------------------------------------ floats
\* Fraction bits and significand bits of the modelled float format.
FracBits == 12
SigBits == 10
S == 2 ^ FracBits

Abs(x) == IF x < 0 THEN -x ELSE x
Sgn(x) == IF x < 0 THEN -1 ELSE 1
Max(a, b) == IF a >= b THEN a ELSE b

\* The spacing of representable values around magnitude a.
RECURSIVE Quantum(_)
Quantum(a) == IF a < 2 ^ SigBits THEN 1 ELSE 2 * Quantum(a \div 2)

\* Round an exact value to the nearest representable one, ties to even.
Rnd(x) ==
    LET a  == Abs(x)
        q  == Quantum(a)
        m  == a \div q
        r  == a - m * q
        up == (2 * r > q) \/ (2 * r = q /\ m % 2 = 1)
    IN Sgn(x) * (IF up THEN (m + 1) * q ELSE m * q)

\* Integer quotient rounded to nearest (d # 0).
DivNearest(nn, d) ==
    LET a == Abs(nn)
        b == Abs(d)
    IN Sgn(nn) * Sgn(d) * ((2 * a + b) \div (2 * b))

Float(i) == Rnd(i * S)
FAdd(a, b) == Rnd(a + b)
FSub(a, b) == Rnd(a - b)

\* Product and quotient of two representable values a = ma * qa and
\* b = mb * qb, computed on the significands so that no intermediate
\* exceeds the integer range, then rounded once.
FMul(a, b) ==
    LET qa == Quantum(Abs(a))
        qb == Quantum(Abs(b))
        p  == (a \div qa) * (b \div qb)
        qq == qa * qb
    IN Rnd(IF qq >= S THEN p * (qq \div S) ELSE DivNearest(p, S \div qq))

FDiv(a, b) ==
    LET qa == Quantum(Abs(a))
        qb == Quantum(Abs(b))
        ma == a \div qa
        mb == b \div qb
    IN Rnd(IF qa >= qb THEN DivNearest(ma * S * (qa \div qb), mb)
           ELSE DivNearest(ma * S, mb * (qb \div qa)))

\* Python results: a returned value or a raised exception.
Ok(v) == [err |-> "none", val |-> v]
Raise(e) == [err |-> e, val |-> 0]

\* math.log2 for x > 0: exponent by normalising into [1, 2), then the
\* fraction bit by bit by repeated squaring.
RECURSIVE Log2Norm(_, _)
Log2Norm(x, k) ==
    IF x >= 2 * S THEN Log2Norm(x \div 2, k + 1)
    ELSE IF x < S THEN Log2Norm(x * 2, k - 1)
    ELSE <<x, k>>

RECURSIVE Log2Frac(_, _, _)
Log2Frac(y, b, w) ==
    IF b = 0 THEN 0
    ELSE LET y2 == (y * y) \div S
         IN IF y2 >= 2 * S THEN w + Log2Frac(y2 \div 2, b - 1, w \div 2)
            ELSE Log2Frac(y2, b - 1, w \div 2)

log2(x) ==
    IF x <= 0 THEN Raise("ValueError")
    ELSE LET nk == Log2Norm(x, 0)
         IN Ok(Rnd(nk[2] * S + Log2Frac(nk[1], FracBits, S \div 2)))

\* ln 2 = 0.693147 as a representable value, in units of 2^-12.
LN2 == 2840

\* math.log (natural logarithm); raises ValueError for x <= 0.
log(x) ==
    IF x <= 0 THEN Raise("ValueError")
    ELSE Ok(FMul(log2(x).val, LN2))

\* ------------------------------------------------------------ Kahan
Kahan == [s |-> 0, c |-> 0]

KahanAdd(acc, x) ==
    LET y == FSub(x, acc.c)
        t == FAdd(acc.s, y)
    IN [s |-> t, c |-> FSub(FSub(t, acc.s), y)]

KahanValue(acc) == acc.s

\* ------------------------------------------------------------ sieves
TableLen(t) == Cardinality(DOMAIN t)

\* is_prime[start:N+1:step] = [False] * (((N - start) // step) + 1)
SliceClear(is_prime, start, step, top) ==
    [k \in DOMAIN is_prime |->
        IF k >= start /\ k <= top /\ (k - start) % step = 0
        THEN FALSE ELSE is_prime[k]]

\* Mutant: the marking loop runs while p * p < N.
RECURSIVE SieveMarkStrict(_, _, _)
SieveMarkStrict(is_prime, p, top) ==
    IF p * p < top
    THEN SieveMarkStrict(IF is_prime[p]
                         THEN SliceClear(is_prime, p * p, p, top)
                         ELSE is_prime, p + 1, top)
    ELSE is_prime

RECURSIVE SieveMark(_, _, _)
SieveMark(is_prime, p, top) ==
    IF p * p <= top
    THEN SieveMark(IF is_prime[p] THEN SliceClear(is_prime, p * p, p, top)
                   ELSE is_prime, p + 1, top)
    ELSE is_prime

sieve_primes_bool(top) ==
    IF top < 1 THEN [k \in 0..top |-> FALSE]
    ELSE SieveMark([k \in 0..top |-> k >= 2], 2, top)

RECURSIVE PiCount(_, _, _, _, _)
PiCount(is_prime, tab, cnt, k, top) ==
    IF k > top THEN tab
    ELSE LET c2 == IF is_prime[k] THEN cnt + 1 ELSE cnt
         IN PiCount(is_prime, [tab EXCEPT ![k] = c2], c2, k + 1, top)

sieve_pi(top) ==
    Ok(PiCount(sieve_primes_bool(top), [k \in 0..top |-> 0], 0, 0, top))

RECURSIVE PhiInner(_, _, _, _)
PhiInner(tab, i, j, top) ==
    IF j > top THEN tab
    ELSE PhiInner([tab EXCEPT ![j] = tab[j] - (tab[j] \div i)], i, j + i, top)

RECURSIVE PhiOuter(_, _, _)
PhiOuter(tab, i, top) ==
    IF i > top THEN tab
    ELSE PhiOuter(IF tab[i] = i THEN PhiInner(tab, i, i, top) ELSE tab,
                  i + 1, top)

\* Mutant: the outer loop starts at 3.
sieve_phi_from3(top) ==
    LET t0 == [k \in 0..top |-> k]
        t1 == IF top >= 1 THEN [t0 EXCEPT ![1] = 1] ELSE t0
    IN Ok(PhiOuter(t1, 3, top))

sieve_phi(top) ==
    LET t0 == [k \in 0..top |-> k]
        t1 == IF top >= 1 THEN [t0 EXCEPT ![1] = 1] ELSE t0
    IN Ok(PhiOuter(t1, 2, top))

\* ------------------------------------------------------------ sieves of scripts/triad_full.py
\* The largest r with r * r <= v, for 0 <= v < 2^31.
RECURSIVE ISqrtIn(_, _, _)
ISqrtIn(v, lo, hi) ==
    IF hi - lo <= 1 THEN lo
    ELSE LET mid == (lo + hi) \div 2
         IN IF mid * mid <= v THEN ISqrtIn(v, mid, hi) ELSE ISqrtIn(v, lo, mid)

\* x ** 0.5 on a float x >= 0: the square root, rounded to nearest.
FSqrt(x) ==
    LET v  == x * S
        r0 == ISqrtIn(v, 0, 46341)
    IN Rnd(IF v - r0 * r0 > r0 THEN r0 + 1 ELSE r0)

\* int() of a float >= 0: truncation.
IntOf(x) == x \div S

\* Mutant: the marking loop is range(2, limit).
tf_limit_short(top) == IntOf(FSqrt(Float(top))) - 1

\* limit = int(N ** 0.5)
tf_limit(top) == IntOf(FSqrt(Float(top)))

\* for m in range(p*p, N + 1, p): is_prime[m] = False
RECURSIVE TFMarkInner(_, _, _, _)
TFMarkInner(is_prime, m, p, top) ==
    IF m > top THEN is_prime
    ELSE TFMarkInner([is_prime EXCEPT ![m] = FALSE], m + p, p, top)

\* for p in range(2, limit + 1): if is_prime[p]: ...
RECURSIVE TFMarkOuter(_, _, _, _)
TFMarkOuter(is_prime, p, limit, top) ==
    IF p > limit THEN is_prime
    ELSE TFMarkOuter(IF is_prime[p] THEN TFMarkInner(is_prime, p * p, p, top)
                     ELSE is_prime, p + 1, limit, top)

\* for i in range(2, N + 1): if is_prime[i]: cnt += 1; pi[i] = cnt
RECURSIVE TFCount(_, _, _, _, _)
TFCount(is_prime, tab, cnt, i, top) ==
    IF i > top THEN tab
    ELSE LET c2 == IF is_prime[i] THEN cnt + 1 ELSE cnt
         IN TFCount(is_prime, [tab EXCEPT ![i] = c2], c2, i + 1, top)

\* sieve_prime_counts of scripts/triad_full.py
tf_sieve_prime_counts(top) ==
    IF top < 1 THEN Ok([k \in 0..top |-> 0])
    ELSE Ok(TFCount(TFMarkOuter([k \in 0..top |-> k >= 2], 2,
                                tf_limit(top), top),
                    [k \in 0..top |-> 0], 0, 2, top))

\* sieve_totients of scripts/triad_full.py
tf_sieve_totients(top) ==
    IF top < 0 THEN Raise("ValueError")
    ELSE LET t0 == [k \in 0..top |-> k]
             t1 == [t0 EXCEPT ![0] = 0]
             t2 == IF top >= 1 THEN [t1 EXCEPT ![1] = 1] ELSE t1
         IN Ok(PhiOuter(t2, 2, top))

\* ------------------------------------------------------------ terms
\* 2.0 / (i * i * (i - 1.0)), called for i >= 3 only.
xi_term(i) == FDiv(Float(2), FMul(Float(i * i), FSub(Float(i), Float(1))))

\* log2(i) / (i * i), called for i >= 2 only.
e_term(i) == FDiv(log2(Float(i)).val, Float(i * i))

\* 1.0 / (i * (phi_i + pi_i)); an integer zero divisor raises.
omega_term(i, phi_i, pi_i) ==
    LET den == i * (phi_i + pi_i)
    IN IF den = 0 THEN Raise("ZeroDivisionError")
       ELSE Ok(FDiv(Float(1), Float(den)))

\* ------------------------------------------------------------ scalar evaluators
RECURSIVE XiLoop(_, _, _)
XiLoop(acc, i, nn) ==
    IF i > nn THEN acc ELSE XiLoop(KahanAdd(acc, xi_term(i)), i + 1, nn)

Xi(nn) == IF nn < 3 THEN 0 ELSE KahanValue(XiLoop(Kahan, 3, nn))

RECURSIVE ELoop(_, _, _)
ELoop(acc, i, nn) ==
    IF i > nn THEN acc ELSE ELoop(KahanAdd(acc, e_term(i)), i + 1, nn)

E(nn) == IF nn < 2 THEN 0 ELSE KahanValue(ELoop(Kahan, 2, nn))

RECURSIVE OmegaLoop(_, _, _, _, _)
OmegaLoop(acc, i, nn, phi_t, pi_t) ==
    IF i > nn THEN Ok(acc)
    ELSE LET t == omega_term(i, phi_t[i], pi_t[i])
         IN IF t.err # "none" THEN t
            ELSE OmegaLoop(KahanAdd(acc, t.val), i + 1, nn, phi_t, pi_t)

Omega(nn, phi_t, pi_t) ==
    IF nn < 2 THEN Ok(0)
    ELSE LET r == OmegaLoop(Kahan, 2, nn, phi_t, pi_t)
         IN IF r.err # "none" THEN r ELSE Ok(KahanValue(r.val))

\* ------------------------------------------------------------ tail bounds
\* pow(2.718281828459045, EULER_GAMMA) = 1.78107 as a representable value,
\* in units of 2^-12.
EXP_GAMMA == 7296
\* The default D_omega = 10.0.
D_OMEGA == 10

\* 2.0 / (n * n)
xi_tail_at(m) ==
    IF m * m = 0 THEN Raise("ZeroDivisionError")
    ELSE Ok(FDiv(Float(2), Float(m * m)))

xi_tail_bound(nn) == xi_tail_at(Max(nn, 2))

\* Mutant: the divisor lacks the factor n.
e_tail_at_noN(m) ==
    LET l == log(Float(m))
    IN IF l.err # "none" THEN l
       ELSE Ok(FDiv(FAdd(l.val, Float(1)), log(Float(2)).val))

\* (log(n) + 1.0) / (n * log(2.0))
e_tail_at(m) ==
    LET l == log(Float(m))
    IN IF l.err # "none" THEN l
       ELSE LET den == FMul(Float(m), log(Float(2)).val)
            IN IF den = 0 THEN Raise("ZeroDivisionError")
               ELSE Ok(FDiv(FAdd(l.val, Float(1)), den))

e_tail_bound(nn) == e_tail_at(Max(nn, 2))

\* ((pow(2.718281828459045, EULER_GAMMA) * log(log(n))) + D_omega) / n
omega_tail_at(m, D) ==
    LET l == log(Float(m))
    IN IF l.err # "none" THEN l
       ELSE LET ll == log(l.val)
            IN IF ll.err # "none" THEN ll
               ELSE Ok(FDiv(FAdd(FMul(EXP_GAMMA, ll.val), D), Float(m)))

\* Mutant: n is not clamped.
omega_tail_unclamped(nn, D) == omega_tail_at(nn, D)

omega_tail_bound(nn, D) == omega_tail_at(Max(nn, 3), D)

triad_tail_bound(nn, D) ==
    LET rx == xi_tail_bound(nn)
        re == e_tail_bound(nn)
        ro == omega_tail_bound(nn, D)
    IN IF rx.err # "none" THEN rx
       ELSE IF re.err # "none" THEN re
       ELSE IF ro.err # "none" THEN ro
       ELSE Ok([xi |-> rx.val, e |-> re.val, om |-> ro.val,
                tot |-> FAdd(FAdd(rx.val, re.val), ro.val)])

\* ------------------------------------------------------------ state
VARIABLES
    caller,   \* the entry point running: "none", "make_dataset", "stream",
              \* "compute_values", "tail" or "triad_full"
    pc,       \* "idle", "loop" (iterating the generator), "after_loop", "done"
    N,        \* the upper limit N of the run
    phi,      \* the totient table handed to the generator
    pi,       \* the prime-count table handed to the generator
    sieved,   \* whether sieve_phi / sieve_pi have been called in this run
    gen,      \* the generator: "none", "created", "suspended" (at its yield),
              \* "exhausted", "raised", "abandoned" (the consumer broke out)
    n,        \* the generator's loop variable (0 before the first iteration)
    xi_acc, om_acc, e_acc,   \* the three Kahan accumulators
    xi_val, om_val, e_val,   \* the three current prefix values
    out,      \* the records yielded so far, in order
    err,      \* the exception that left the entry point, or "none"
    points, N_ref, need, vals, R,   \* compute_values' arguments and dicts
    kappa     \* compute_values' kappa_interval, <<>> until computed

vars == <<caller, pc, N, phi, pi, sieved, gen, n, xi_acc, om_acc, e_acc,
          xi_val, om_val, e_val, out, err, points, N_ref, need, vals, R,
          kappa>>

genVars == <<gen, n, xi_acc, om_acc, e_acc, xi_val, om_val, e_val, out>>
cvVars == <<points, N_ref, need, vals, R, kappa>>

Init ==
    /\ caller = "none" /\ pc = "idle"
    /\ N = 0 /\ phi = <<>> /\ pi = <<>> /\ sieved = FALSE
    /\ gen = "none" /\ n = 0
    /\ xi_acc = Kahan /\ om_acc = Kahan /\ e_acc = Kahan
    /\ xi_val = 0 /\ om_val = 0 /\ e_val = 0
    /\ out = <<>> /\ err = "none"
    /\ points = {} /\ N_ref = 0 /\ need = {} /\ vals = <<>> /\ R = <<>>
    /\ kappa = <<>>

\* ------------------------------------------------------------ generator
\* Mutant: the loop is range(1, N).
LoopHasNextShort(cur, top) == cur + 1 < top

\* range(1, N + 1) has a next element after n.
LoopHasNext(cur, top) == cur + 1 <= top

\* Mutant: the Xi accumulator is fed from n = 2.
FeedsXiFrom2(m) == m >= 2

\* if n >= 3: the Xi accumulator is fed.
FeedsXi(m) == m >= 3

\* if n >= 2: the E and Omega accumulators are fed.
FeedsEOmega(m) == m >= 2

\* Mutant: E is added instead of subtracted.
F_plus(xv, ov, ev) == FAdd(FAdd(xv, ov), ev)

\* F_val = xi_val + om_val - e_val
F_of(xv, ov, ev) == FSub(FAdd(xv, ov), ev)

\* The value after a new generator object starts its body: the three
\* accumulators and the three prefix values are zero.
GenCreate ==
    /\ gen' = "created" /\ n' = 0
    /\ xi_acc' = Kahan /\ om_acc' = Kahan /\ e_acc' = Kahan
    /\ xi_val' = 0 /\ om_val' = 0 /\ e_val' = 0
    /\ out' = <<>>

\* One resumption of stream_prefix_values: the loop body up to the next
\* yield, the end of the range, or an exception.  The result holds the new
\* generator state, the record yielded (if any) and the exception (if any).
GenStep ==
    IF ~LoopHasNext(n, N)
    THEN [status |-> "exhausted", n |-> n,
          xi_acc |-> xi_acc, om_acc |-> om_acc, e_acc |-> e_acc,
          xi_val |-> xi_val, om_val |-> om_val, e_val |-> e_val,
          out |-> out, err |-> "none"]
    ELSE
    LET m   == n + 1
        xa  == IF FeedsXi(m) THEN KahanAdd(xi_acc, xi_term(m)) ELSE xi_acc
        xv  == IF FeedsXi(m) THEN KahanValue(xa) ELSE xi_val
        ea  == IF FeedsEOmega(m) THEN KahanAdd(e_acc, e_term(m)) ELSE e_acc
        ev  == IF FeedsEOmega(m) THEN KahanValue(ea) ELSE e_val
        ot  == omega_term(m, phi[m], pi[m])
    IN IF FeedsEOmega(m) /\ ot.err # "none"
       THEN [status |-> "raised", n |-> m,
             xi_acc |-> xa, om_acc |-> om_acc, e_acc |-> ea,
             xi_val |-> xv, om_val |-> om_val, e_val |-> ev,
             out |-> out, err |-> ot.err]
       ELSE
       LET oa == IF FeedsEOmega(m) THEN KahanAdd(om_acc, ot.val) ELSE om_acc
           ov == IF FeedsEOmega(m) THEN KahanValue(oa) ELSE om_val
       IN [status |-> "suspended", n |-> m,
           xi_acc |-> xa, om_acc |-> oa, e_acc |-> ea,
           xi_val |-> xv, om_val |-> ov, e_val |-> ev,
           out |-> Append(out, [n |-> m, xi |-> xv, om |-> ov, e |-> ev,
                                F |-> F_of(xv, ov, ev)]),
           err |-> "none"]

\* The generator's variables after the step g.
GenApply(g) ==
    /\ n' = g.n
    /\ xi_acc' = g.xi_acc /\ om_acc' = g.om_acc /\ e_acc' = g.e_acc
    /\ xi_val' = g.xi_val /\ om_val' = g.om_val /\ e_val' = g.e_val
    /\ out' = g.out

\* ------------------------------------------------------------ make_dataset
\* main() up to the creation of the generator: N = int(args.max_n), the two
\* sieves, then the for statement evaluates stream_prefix_values(N, phi, pi).
MakeDatasetStart(max_n) ==
    /\ pc = "idle"
    /\ LET rphi == sieve_phi(max_n)
           rpi  == sieve_pi(max_n)
       IN /\ caller' = "make_dataset"
          /\ N' = max_n
          /\ sieved' = TRUE
          /\ IF rphi.err # "none" \/ rpi.err # "none"
             THEN /\ err' = (IF rphi.err # "none" THEN rphi.err ELSE rpi.err)
                  /\ pc' = "done"
                  /\ UNCHANGED <<phi, pi, genVars>>
             ELSE /\ phi' = rphi.val /\ pi' = rpi.val
                  /\ err' = "none"
                  /\ pc' = "loop"
                  /\ GenCreate
    /\ UNCHANGED cvVars

\* ------------------------------------------------------------ direct use
\* The table tab with entry k replaced by c.
Corrupt(tab, k, c) == [tab EXCEPT ![k] = c]

\* A caller of the library builds tables for M >= top, possibly damages one
\* totient entry, and iterates stream_prefix_values(top, phi, pi).
StreamStart(top, M, k, c) ==
    /\ pc = "idle"
    /\ caller' = "stream"
    /\ N' = top
    /\ sieved' = TRUE
    /\ phi' = (IF k = 0 THEN sieve_phi(M).val
               ELSE Corrupt(sieve_phi(M).val, k, c))
    /\ pi' = sieve_pi(M).val
    /\ err' = "none"
    /\ pc' = "loop"
    /\ GenCreate
    /\ UNCHANGED cvVars

\* One iteration of a for loop that consumes every record (make_dataset's
\* row writer, or any exhaustive consumer): next() on the generator.
ConsumeOn(g) ==
    /\ GenApply(g)
    /\ gen' = g.status
    /\ err' = g.err
    /\ pc' = (IF g.status = "suspended" THEN "loop" ELSE "done")

ConsumeNext ==
    /\ pc = "loop"
    /\ caller \in {"make_dataset", "stream"}
    /\ ConsumeOn(GenStep)
    /\ UNCHANGED <<caller, N, phi, pi, sieved, cvVars>>

\* ------------------------------------------------------------ compute_values
SetMax(s) == CHOOSE x \in s : \A y \in s : y <= x

\* d[k] = v on a dict d.
DictPut(d, k, v) == [j \in DOMAIN d \cup {k} |-> IF j = k THEN v ELSE d[j]]

\* compute_values up to its for statement: N = max(max(points), N_ref), the
\* two sieves, need, the empty dicts.  max() of no points raises ValueError.
CVStart(pts, nref) ==
    /\ pc = "idle"
    /\ caller' = "compute_values"
    /\ points' = pts /\ N_ref' = nref
    /\ vals' = <<>> /\ R' = <<>>
    /\ UNCHANGED kappa
    /\ IF pts = {}
       THEN /\ err' = "ValueError"
            /\ pc' = "done"
            /\ need' = {}
            /\ UNCHANGED <<N, phi, pi, sieved, genVars>>
       ELSE LET top == Max(SetMax(pts), nref)
            IN /\ N' = top
               /\ phi' = sieve_phi(top).val
               /\ pi' = sieve_pi(top).val
               /\ sieved' = TRUE
               /\ need' = pts \cup {nref}
               /\ err' = "none"
               /\ pc' = "loop"
               /\ GenCreate

\* The loop body for the record r, whose tail bounds are tb.
CVBody(r, tb) ==
    LET v2 == IF r.n \in need
              THEN DictPut(vals, r.n, [xi |-> r.xi, om |-> r.om,
                                       e |-> r.e, F |-> r.F])
              ELSE vals
    IN /\ vals' = v2
       /\ IF r.n \in need /\ tb.err # "none"
          THEN /\ err' = tb.err
               /\ gen' = "abandoned"
               /\ pc' = "done"
               /\ UNCHANGED R
          ELSE /\ R' = (IF r.n \in need THEN DictPut(R, r.n, tb.val) ELSE R)
               /\ UNCHANGED err
               /\ IF Cardinality(DOMAIN v2) = Cardinality(need)
                  THEN gen' = "abandoned" /\ pc' = "after_loop"
                  ELSE gen' = "suspended" /\ pc' = "loop"

\* The iteration whose next() made the generator step g.
CVOn(g) ==
    /\ GenApply(g)
    /\ IF g.status = "exhausted"
       THEN /\ gen' = "exhausted"
            /\ pc' = "after_loop"
            /\ UNCHANGED <<vals, R, err>>
       ELSE IF g.status = "raised"
       THEN /\ gen' = "raised"
            /\ err' = g.err
            /\ pc' = "done"
            /\ UNCHANGED <<vals, R>>
       ELSE CVBody(g.out[Len(g.out)],
                   triad_tail_bound(g.n, Float(D_OMEGA)))

\* One iteration of compute_values' for loop: next() on the generator, then
\* the body: capture a needed record and its tail bounds, break when every
\* needed index is captured.
CVIter ==
    /\ pc = "loop"
    /\ caller = "compute_values"
    /\ CVOn(GenStep)
    /\ UNCHANGED <<caller, N, phi, pi, sieved, points, N_ref, need, kappa>>

\* After the loop: RuntimeError unless F(N_ref) was captured, else the
\* interval F_ref -/+ Rtot_ref.
CVFinish ==
    /\ pc = "after_loop"
    /\ caller = "compute_values"
    /\ IF N_ref \notin DOMAIN vals
       THEN /\ err' = "RuntimeError"
            /\ UNCHANGED kappa
       ELSE /\ kappa' = <<FSub(vals[N_ref].F, R[N_ref].tot),
                          FAdd(vals[N_ref].F, R[N_ref].tot)>>
            /\ UNCHANGED err
    /\ pc' = "done"
    /\ UNCHANGED <<caller, N, phi, pi, sieved, genVars, points, N_ref, need,
                   vals, R>>

\* ------------------------------------------------------------ tail bounds, direct
\* A reporter asks triad_tail_bound(nn) with the default D_omega and keeps
\* the tuple in its dict R; an exception ends the run.
TailCall(nn) ==
    /\ pc = "idle" \/ (caller = "tail" /\ pc = "loop")
    /\ nn \notin DOMAIN R
    /\ Cardinality(DOMAIN R) < MaxTailCalls
    /\ caller' = "tail"
    /\ LET tb == triad_tail_bound(nn, Float(D_OMEGA))
       IN IF tb.err # "none"
          THEN /\ err' = tb.err
               /\ pc' = "done"
               /\ UNCHANGED R
          ELSE /\ R' = DictPut(R, nn, tb.val)
               /\ pc' = "loop"
               /\ UNCHANGED err
    /\ UNCHANGED <<N, phi, pi, sieved, genVars, points, N_ref, need, vals,
                   kappa>>

\* ------------------------------------------------------------ triad_full
\* The run after the two sieve calls returned rphi and rpi (rpi is only
\* evaluated when sieve_totients did not raise).
TriadFullStore(top, rphi, rpi) ==
    /\ caller' = "triad_full"
    /\ N' = top
    /\ sieved' = TRUE
    /\ pc' = "done"
    /\ IF rphi.err # "none"
       THEN err' = rphi.err /\ UNCHANGED <<phi, pi>>
       ELSE IF rpi.err # "none"
       THEN err' = rpi.err /\ UNCHANGED <<phi, pi>>
       ELSE err' = "none" /\ phi' = rphi.val /\ pi' = rpi.val
    /\ UNCHANGED <<genVars, cvVars>>

\* scripts/triad_full.py: main's N = int(args.n) and the first statement of
\* triad_prefixes(N), phi = sieve_totients(N); pi = sieve_prime_counts(N).
\* The term lists and prefix sums that follow read the tables only.
TriadFullSieves(top) ==
    /\ pc = "idle"
    /\ TriadFullStore(top, tf_sieve_totients(top), tf_sieve_prime_counts(top))

\* ------------------------------------------------------------ specification
Next ==
    \/ \E max_n \in (-MinNeg)..MaxN : MakeDatasetStart(max_n)
    \/ \E top \in 1..MaxN : \E M \in top..MaxN :
           \E k \in {0} \cup 2..M : \E c \in (-MaxCorrupt)..0 :
               (k = 0 => c = 0) /\ StreamStart(top, M, k, c)
    \/ ConsumeNext
    \/ \E pts \in SUBSET (0..MaxPoint) : \E nref \in (-1)..MaxPoint :
           CVStart(pts, nref)
    \/ CVIter
    \/ CVFinish
    \/ \E nn \in (-TailNeg)..MaxTailN : TailCall(nn)
    \/ \E top \in (-MinNeg)..MaxFullN : TriadFullSieves(top)

Spec == Init /\ [][Next]_vars

\* ------------------------------------------------------------ reference notions
RECURSIVE GCD(_, _)
GCD(a, b) == IF b = 0 THEN a ELSE GCD(b, a % b)

Totient(i) == Cardinality({k \in 1..i : GCD(k, i) = 1})
IsPrime(k) == k >= 2 /\ \A d \in 2..(k - 1) : k % d # 0
PrimeCount(i) == Cardinality({k \in 0..i : IsPrime(k)})

Phi10 == <<0, 1, 1, 2, 2, 4, 2, 6, 4, 6, 4>>
Pi10 == <<0, 0, 1, 2, 2, 3, 3, 4, 4, 4, 4>>

\* The run built phi and pi with sieve_phi(N) and sieve_pi(N).
TablesFromSieve == caller \in {"make_dataset", "compute_values"} /\ sieved

\* The generator has yielded its n-th record and not raised.
GenIntact == gen \in {"suspended", "exhausted", "abandoned"}

\* ------------------------------------------------------------ claims

\* C1: the n-th record of stream_prefix_values carries the Xi, E and Omega
\* values of the scalar evaluators Xi(n), E(n), Omega(n, phi, pi); the Xi
\* accumulator has received the terms 3..n and the E and Omega accumulators
\* the terms 2..n, once each in increasing order; the record for n = 1 is
\* (0, 0, 0) and the record for n = 2 has Xi = 0.
C1_StreamMatchesScalar ==
    /\ \A k \in 1..Len(out) :
          /\ out[k].xi = Xi(k)
          /\ out[k].e = E(k)
          /\ Omega(k, phi, pi) = Ok(out[k].om)
          /\ (k = 1 => out[k].xi = 0 /\ out[k].e = 0 /\ out[k].om = 0)
          /\ (k = 2 => out[k].xi = 0)
    /\ GenIntact =>
          /\ xi_acc = XiLoop(Kahan, 3, n)
          /\ e_acc = ELoop(Kahan, 2, n)
          /\ Ok(om_acc) = OmegaLoop(Kahan, 2, n, phi, pi)

C1_Witness ==
    /\ caller = "stream" /\ Len(out) >= 5
    /\ out[5].xi > out[3].xi /\ out[3].xi > 0
    /\ out[5].e > out[2].e /\ out[2].e > 0
    /\ out[5].om > out[2].om /\ out[2].om > 0

\* C2: the generator yields one record for each n in 1..N in strictly
\* increasing order (first n = 1, each next n + 1, last n = N) and then
\* terminates; for N <= 0 it yields nothing; a consumer that stops early
\* has seen exactly the records 1..k for some k <= N.
C2_OrderInv ==
    /\ \A k \in 1..Len(out) : out[k].n = k
    /\ Len(out) <= Max(N, 0)
    /\ GenIntact => n = Len(out)
    /\ gen = "exhausted" => Len(out) = Max(N, 0)
    /\ gen = "abandoned" => Len(out) >= 1 /\ Len(out) <= N
    /\ (pc = "done" /\ caller \in {"make_dataset", "stream"} /\ err = "none")
          => gen = "exhausted"

\* Every step of a live generator either yields the record after the last
\* one or ends it (exhausted only once N records are out); an ended
\* generator yields nothing more.
C2_Step ==
    /\ gen \in {"created", "suspended"} =>
          \/ /\ gen' \in {"suspended", "abandoned"}
             /\ Len(out') = Len(out) + 1
             /\ SubSeq(out', 1, Len(out)) = out
             /\ out'[Len(out')].n = Len(out) + 1
          \/ gen' = "exhausted" /\ out' = out /\ Len(out) = Max(N, 0)
          \/ gen' = "raised" /\ out' = out
    /\ gen \in {"exhausted", "abandoned", "raised"} =>
          gen' = gen /\ out' = out

\* C2: one record for each n in 1..N, in increasing order, then the
\* generator ends: the order invariant holds in every state and every step
\* of a live generator yields the next record or ends it.
C2_OneRecordPerNThenStop == []C2_OrderInv /\ [][C2_Step]_vars

C2_Witness ==
    /\ caller = "make_dataset" /\ gen = "exhausted" /\ N = MaxN
    /\ Len(out) = MaxN /\ out[MaxN].n = MaxN

\* C3: for N >= 0 sieve_phi(N) is a table of length N + 1 with entry 0
\* equal to 0 and entry i the number of integers in 1..i coprime to i;
\* phi(1) = 1, phi(p) = p - 1 for each prime p <= N, and the table for
\* N = 10 is [0,1,1,2,2,4,2,6,4,6,4].
C3_TotientTable ==
    (TablesFromSieve /\ N >= 0) =>
        /\ DOMAIN phi = 0..N
        /\ TableLen(phi) = N + 1
        /\ phi[0] = 0
        /\ \A i \in 1..N : phi[i] = Totient(i)
        /\ (N >= 1 => phi[1] = 1)
        /\ \A p \in 2..N : IsPrime(p) => phi[p] = p - 1
        /\ (N = 10 => \A i \in 0..10 : phi[i] = Phi10[i + 1])

C3_Witness ==
    /\ TablesFromSieve /\ caller = "make_dataset" /\ N = 10
    /\ phi[7] = 6 /\ phi[10] = 4 /\ phi[9] = 6

\* C4: for N >= 0 sieve_pi(N) is a table of length N + 1 whose entry i is
\* the number of primes <= i; it is non-decreasing with steps of at most 1,
\* pi(0) = pi(1) = 0, pi(2) = 1, the table for N = 10 is
\* [0,0,1,2,2,3,3,4,4,4,4]; the boolean sieve is false exactly at 0, 1 and
\* the composites of 0..N.
C4_PrimeCountTable ==
    (TablesFromSieve /\ N >= 0) =>
        /\ DOMAIN pi = 0..N
        /\ TableLen(pi) = N + 1
        /\ \A i \in 0..N : pi[i] = PrimeCount(i)
        /\ \A i \in 1..N : pi[i] >= pi[i - 1] /\ pi[i] <= pi[i - 1] + 1
        /\ pi[0] = 0
        /\ (N >= 1 => pi[1] = 0)
        /\ (N >= 2 => pi[2] = 1)
        /\ (N = 10 => \A i \in 0..10 : pi[i] = Pi10[i + 1])
        /\ \A k \in 0..N : sieve_primes_bool(N)[k] = IsPrime(k)

C4_Witness ==
    /\ TablesFromSieve /\ caller = "make_dataset" /\ N = 10
    /\ pi[10] = 4 /\ pi[9] = 4 /\ pi[4] = 2
    /\ ~sieve_primes_bool(N)[9] /\ sieve_primes_bool(N)[7]

\* C5 (as claimed): for N < 0 both sieves end in an error and return no
\* table; for N = 0 and N = 1 both return tables of length N + 1 without
\* error.
C5_NegativeNRejected ==
    (caller = "make_dataset" /\ sieved) =>
        /\ (N < 0 => err # "none" /\ gen = "none" /\ pc = "done")
        /\ (N \in {0, 1} =>
               err = "none" /\ TableLen(phi) = N + 1 /\ TableLen(pi) = N + 1)

\* C6 (as claimed): when phi(i) + pi(i) <= 0 at an index i >= 2 the
\* computation halts with an error: no accumulator takes the term and no
\* record is yielded for that n or any later n.
C6_NonPositiveDenominatorHalts ==
    \A i \in 2..N :
        (i \in DOMAIN phi /\ phi[i] + pi[i] <= 0) =>
            /\ \A k \in 1..Len(out) : out[k].n < i
            /\ (n >= i => gen = "raised" /\ err # "none")

\* C7 (as claimed): compute_values given an index that no stream record
\* can carry (N_ref or a sample point outside 1..N) raises before either
\* sieve is called and before any record is consumed.
C7_InvalidIndexFailsFast ==
    (caller = "compute_values" /\ \E x \in points \cup {N_ref} : x < 1) =>
        /\ pc = "done" /\ err # "none"
        /\ ~sieved
        /\ gen = "none" /\ out = <<>>

\* C8: with D = 10.0 each of R_Xi, R_E, R_Omega and R_total is strictly
\* positive for every n asked, and non-increasing in n from the series'
\* domain minimum on (2 for Xi and E, 3 for Omega and the total).
C8_TailsPositiveNonIncreasing ==
    /\ caller = "tail" => err = "none"
    /\ \A a \in DOMAIN R :
          R[a].xi > 0 /\ R[a].e > 0 /\ R[a].om > 0 /\ R[a].tot > 0
    /\ \A a \in DOMAIN R : \A b \in DOMAIN R :
          (a <= b) =>
             /\ (a >= 2 => R[b].xi <= R[a].xi /\ R[b].e <= R[a].e)
             /\ (a >= 3 => R[b].om <= R[a].om /\ R[b].tot <= R[a].tot)

C8_Witness ==
    /\ caller = "tail"
    /\ \E a \in DOMAIN R : \E b \in DOMAIN R :
          /\ a = 3 /\ b >= 20
          /\ R[b].xi < R[a].xi /\ R[b].e < R[a].e
          /\ R[b].om < R[a].om /\ R[b].tot < R[a].tot

C10_FRecomputed ==
    /\ \A k \in 1..Len(out) :
          out[k].F = FSub(FAdd(out[k].xi, out[k].om), out[k].e)
    /\ (GenIntact /\ Len(out) >= 1) =>
          LET r == out[Len(out)]
          IN /\ r.xi = xi_val /\ r.om = om_val /\ r.e = e_val
             /\ (n >= 3 => xi_val = KahanValue(xi_acc))
             /\ (n >= 2 => om_val = KahanValue(om_acc)
                           /\ e_val = KahanValue(e_acc))

C10_Witness ==
    /\ Len(out) >= 5
    /\ out[3].F > 0 /\ out[4].F < 0 /\ out[5].F < out[4].F
    /\ out[5].F # out[4].F + out[3].F

\* C11: for every N >= 0, sieve_totients(N) of scripts/triad_full.py
\* returns the same table as sieve_phi(N) of src/triad.py, and
\* sieve_prime_counts(N) of scripts/triad_full.py (marking bounded by
\* int(sqrt(N)), counting from index 2) the same table as sieve_pi(N)
\* (marking while p * p <= N, counting from index 0).
C11_SievesAgree ==
    (caller = "triad_full" /\ N >= 0) =>
        /\ err = "none"
        /\ Ok(phi) = sieve_phi(N)
        /\ Ok(pi) = sieve_pi(N)
        /\ DOMAIN phi = 0..N /\ DOMAIN pi = 0..N

C11_Witness ==
    /\ caller = "triad_full" /\ N >= 25 /\ err = "none"
    /\ pi[25] = 9 /\ pi[24] = 9 /\ pi[9] = 4 /\ pi[4] = 2
    /\ phi[25] = 20 /\ phi[0] = 0

====
